---------------------------- MODULE Spec2Model ----------------------------
(***************************************************************************)
(* Model of the Wikipedia vital-articles tools:                            *)
(*   src/scrape-vital-articles.py       link classifier and traversal      *)
(*   src/generate-vital-articles-md.py  content normalizer and batch loop  *)
(*                                                                         *)
(* Python strings are modelled as sequences of one-character strings, so   *)
(* that startswith, split, replace, unquote and the regular expressions    *)
(* work on characters exactly as the code does.                            *)
(***************************************************************************)
EXTENDS Integers, Sequences, FiniteSets, TLC

VARIABLES
    \* ---- link classifier (scrape-vital-articles.py, lines 32-86) ----
    href,        \* the href of the anchor being looked at
    valid,       \* result of is_valid_article_link(href), "unset" before the call
    title,       \* result of extract_article_title(href)
    title2,      \* extract_article_title applied to the re-encoded title
    redecoded,   \* urllib.parse.unquote applied to the title once more
    lpc,         \* position: "start", "classified", "extracted", "reextracted", "done"
    \* ---- batch loop (generate-vital-articles-md.py, process_level) ----
    articles,    \* data['articles']: the targets of the level, in order
    resume,      \* the resume option
    files,       \* names of the artifacts that exist in the level directory
    madeFor,     \* for each artifact name, the topic its content was generated for
    idx,         \* 1-based position of the for loop of line 202
    stats,       \* the stats dictionary: success, failed, skipped, errors
    error_log,   \* the lines written to the error log file
    bpc,         \* "loop", "done" (stats returned) or "raised" (an exception left process_level)
    files0,      \* history: the artifacts that existed when process_level started
    outcomes,    \* history: what happened to each target reached so far
    fetched,     \* history: the topics wikipedia.page was called for
    written,     \* history: the artifact names save_markdown wrote
    \* ---- content normalizer (generate-vital-articles-md.py, clean_content) ----
    raw,         \* the content clean_content was called with
    content,     \* the local variable content
    cpc,         \* the line of clean_content that runs next; "done" after the return
    \* ---- traversal (scrape-vital-articles.py, scrape_vital_articles_level) ----
    level,       \* the level being scraped
    site,        \* the pages of the remote site, by URL
    stack,       \* the active calls: the loop of scrape_vital_articles_level at the
                 \* bottom, the calls of scrape_page_with_subpages above it
    result,      \* the list scrape_vital_articles_level returns
    spc,         \* "start", "run" (inside the loops) or "done"
    failures,    \* how many fetches of existing pages have failed in this run
    calls,       \* history: the URLs scrape_page_with_subpages was called with
    fetches,     \* history: every requests.get, as <<URL, "ok" or "failed">>
    returned     \* history: one record for each call that has returned

linkVars == <<href, valid, title, title2, redecoded, lpc>>

batchVars == <<articles, resume, files, madeFor, idx, stats, error_log, bpc,
               files0, outcomes, fetched, written>>

cleanVars == <<raw, content, cpc>>

scrapeVars == <<level, site, stack, result, spc, failures, calls, fetches, returned>>

vars == <<linkVars, batchVars, cleanVars, scrapeVars>>

\* what the actions of one part leave unchanged
notLink == <<batchVars, cleanVars, scrapeVars>>
notBatch == <<linkVars, cleanVars, scrapeVars>>
notClean == <<linkVars, batchVars, scrapeVars>>
notScrape == <<linkVars, batchVars, cleanVars>>

-----------------------------------------------------------------------------
(* Bounds of the model *)

\* number of tokens concatenated into an input href
MaxTokens == 3

\* number of targets in a level's article list
MaxTargets == 3

\* longest run of heading markers in an input of clean_content
MaxMarkers == 5

\* how many fetches of existing pages may fail in one traversal
MaxFailures == 1

-----------------------------------------------------------------------------
(* Characters and strings *)

\* printable ASCII, code points 32..126 (the grave accent, which a TLA+
\* string cannot hold, is written U+0060)
Ascii ==
    <<" ", "!", "\"", "#", "$", "%", "&", "'", "(", ")", "*", "+", ",", "-",
      ".", "/", "0", "1", "2", "3", "4", "5", "6", "7", "8", "9", ":", ";",
      "<", "=", ">", "?", "@", "A", "B", "C", "D", "E", "F", "G", "H", "I",
      "J", "K", "L", "M", "N", "O", "P", "Q", "R", "S", "T", "U", "V", "W",
      "X", "Y", "Z", "[", "\\", "]", "^", "_", "U+0060", "a", "b", "c", "d", "e",
      "f", "g", "h", "i", "j", "k", "l", "m", "n", "o", "p", "q", "r", "s",
      "t", "u", "v", "w", "x", "y", "z", "{", "|", "}", "~">>

\* the character of a byte value as unquote's utf-8 decoding with
\* errors='replace' yields it: ASCII bytes are themselves; a byte >= 128 that
\* is not part of a valid multi-byte sequence becomes U+FFFD.  The inputs of
\* the model contain no escape of a valid multi-byte sequence.
Chr(n) ==
    IF n \in 32..126 THEN Ascii[n - 31]
    ELSE IF n = 10 THEN "\n"
    ELSE IF n < 32 \/ n = 127 THEN "U+00" \o ToString(n)
    ELSE "U+FFFD"

IsAscii(c) == c = "\n" \/ \E n \in 1..Len(Ascii) : Ascii[n] = c

Ord(c) ==
    IF c = "\n" THEN 10 ELSE 31 + (CHOOSE n \in 1..Len(Ascii) : Ascii[n] = c)

StartsWith(s, p) == Len(s) >= Len(p) /\ SubSeq(s, 1, Len(p)) = p

HasChar(s, c) == \E i \in 1..Len(s) : s[i] = c

\* s.index(c): 1-based position of the first c in s (0 when there is none)
IndexOf(s, c) ==
    IF HasChar(s, c) THEN CHOOSE i \in 1..Len(s) : s[i] = c /\ \A j \in 1..(i - 1) : s[j] # c
    ELSE 0

\* s.split(c)[0]
BeforeFirst(s, c) == IF HasChar(s, c) THEN SubSeq(s, 1, IndexOf(s, c) - 1) ELSE s

\* sub in s (substring test)
HasSubstring(s, sub) ==
    \E i \in 1..(Len(s) - Len(sub) + 1) : SubSeq(s, i, i + Len(sub) - 1) = sub

RECURSIVE Concat(_)
Concat(ss) == IF ss = <<>> THEN <<>> ELSE Head(ss) \o Concat(Tail(ss))

\* all sequences over S of length at most n
SeqsUpTo(S, n) == UNION {[1..k -> S] : k \in 0..n}

-----------------------------------------------------------------------------
(* Batch loop: generate-vital-articles-md.py, process_level *)

\* str.replace(old, new) for one-character old and new
Replace(s, old, new) == [i \in 1..Len(s) |-> IF s[i] = old THEN new ELSE s[i]]

\* lines 146-147 and 204-205: the artifact's file name inside the level directory
SafeFilename(topic) ==
    Replace(Replace(topic, "/", "_"), "\\", "_") \o <<".", "m", "d">>

TopicPool ==
    { <<"A", "/", "B">>,
      <<"A", "_", "B">>,
      <<"C">> }

FileNames == { SafeFilename(t) : t \in TopicPool }

NoTopic == <<>>

\* what retrieving a document in generate_markdown can end in: the markdown
\* text; one of the three handlers of lines 78-83; or an exception raised by
\* the page object after line 83, while its content or url is fetched
\* (lines 86-95 are outside the try statement)
FailureReasons == {"Disambiguation page", "Page not found", "Error"}

\* the articles of any JSON file: targets in any order, repeated or not
ArticleLists == SeqsUpTo(TopicPool, MaxTargets)

-----------------------------------------------------------------------------
(* Link classifier: scrape-vital-articles.py *)

wiki == <<"/", "w", "i", "k", "i", "/">>

excluded_prefixes ==
    <<
       wiki \o <<"W", "i", "k", "i", "p", "e", "d", "i", "a", ":">>,
       wiki \o <<"H", "e", "l", "p", ":">>,
       wiki \o <<"C", "a", "t", "e", "g", "o", "r", "y", ":">>,
       wiki \o <<"F", "i", "l", "e", ":">>,
       wiki \o <<"T", "e", "m", "p", "l", "a", "t", "e", ":">>,
       wiki \o <<"T", "e", "m", "p", "l", "a", "t", "e", "_", "t", "a", "l", "k", ":">>,
       wiki \o <<"P", "o", "r", "t", "a", "l", ":">>,
       wiki \o <<"P", "o", "r", "t", "a", "l", "_", "t", "a", "l", "k", ":">>,
       wiki \o <<"S", "p", "e", "c", "i", "a", "l", ":">>,
       wiki \o <<"T", "a", "l", "k", ":">>,
       wiki \o <<"U", "s", "e", "r", ":">>,
       wiki \o <<"U", "s", "e", "r", "_", "t", "a", "l", "k", ":">>,
       wiki \o <<"W", "i", "k", "i", "p", "e", "d", "i", "a", "_", "t", "a", "l", "k", ":">>,
       wiki \o <<"M", "e", "d", "i", "a", "W", "i", "k", "i", ":">>,
       wiki \o <<"M", "e", "d", "i", "a", "W", "i", "k", "i", "_", "t", "a", "l", "k", ":">>,
       wiki \o <<"M", "o", "d", "u", "l", "e", ":">>,
       wiki \o <<"M", "o", "d", "u", "l", "e", "_", "t", "a", "l", "k", ":">>,
       wiki \o <<"D", "r", "a", "f", "t", ":">>,
       wiki \o <<"D", "r", "a", "f", "t", "_", "t", "a", "l", "k", ":">>
    >>

\* is_valid_article_link.  The anchor branch of lines 68-70 only rebinds the
\* local name href and has no effect on the result.
is_valid_article_link(h) ==
    IF h = <<>> \/ ~StartsWith(h, wiki) THEN FALSE
    ELSE IF \E k \in 1..Len(excluded_prefixes) : StartsWith(h, excluded_prefixes[k]) THEN FALSE
    ELSE LET stripped ==
                 IF HasChar(h, "#") /\ IndexOf(h, "#") - 1 < Len(h) - 1
                 THEN BeforeFirst(h, "#") ELSE h
         IN  TRUE

HexDigits == <<"0", "1", "2", "3", "4", "5", "6", "7", "8", "9", "A", "B", "C", "D", "E", "F">>
LowerHexDigits == <<"a", "b", "c", "d", "e", "f">>

IsHex(c) ==
    \/ \E n \in 1..16 : HexDigits[n] = c
    \/ \E n \in 1..6 : LowerHexDigits[n] = c

HexVal(c) ==
    IF \E n \in 1..16 : HexDigits[n] = c
    THEN (CHOOSE n \in 1..16 : HexDigits[n] = c) - 1
    ELSE (CHOOSE n \in 1..6 : LowerHexDigits[n] = c) + 9

\* urllib.parse.unquote: every '%' followed by two hex digits becomes the
\* character of that byte; any other '%' stays as it is.
RECURSIVE Unquote(_)
Unquote(s) ==
    IF s = <<>> THEN <<>>
    ELSE IF s[1] = "%" /\ Len(s) >= 3 /\ IsHex(s[2]) /\ IsHex(s[3])
         THEN <<Chr(16 * HexVal(s[2]) + HexVal(s[3]))>> \o Unquote(SubSeq(s, 4, Len(s)))
         ELSE <<s[1]>> \o Unquote(Tail(s))

\* extract_article_title with the slice of line 82 off by one (href[5:]), so
\* that the '/' closing the prefix stays in the title
extract_article_title_slice5(h) ==
    IF StartsWith(h, wiki)
    THEN Unquote(BeforeFirst(SubSeq(h, 6, Len(h)), "#"))
    ELSE h

\* extract_article_title
extract_article_title(h) ==
    IF StartsWith(h, wiki)
    THEN Unquote(BeforeFirst(SubSeq(h, 7, Len(h)), "#"))
    ELSE h

\* urllib.parse.quote with its default safe='/': letters, digits and "_.-~/"
\* stay, every other character becomes '%' and two upper-case hex digits.
QuoteSafe(c) ==
    \/ c \in {"_", ".", "-", "~", "/"}
    \/ IsAscii(c) /\ (Ord(c) \in 48..57 \/ Ord(c) \in 65..90 \/ Ord(c) \in 97..122)

RECURSIVE Quote(_)
Quote(s) ==
    IF s = <<>> THEN <<>>
    ELSE (IF QuoteSafe(s[1]) THEN <<s[1]>>
          ELSE <<"%", HexDigits[(Ord(s[1]) \div 16) + 1], HexDigits[(Ord(s[1]) % 16) + 1]>>)
         \o Quote(Tail(s))

\* an identifier written back as an href of the article namespace
ReEncode(t) == wiki \o Quote(t)

-----------------------------------------------------------------------------
(* Content normalizer: generate-vital-articles-md.py, clean_content *)

\* the characters \s matches
IsSpace(c) == c \in {" ", "\t", "\n", "\r", "\f"}

IsEq(c) == c = "="

IsHash(c) == c = "#"

\* [^=\n]
IsTextOnLine(c) == c # "=" /\ c # "\n"

\* [^=]
IsText(c) == c # "="

\* \n
IsNewline(c) == c = "\n"

\* the character classes the patterns repeat, by name
InClass(class, c) ==
    CASE class = "IsSpace" -> IsSpace(c)
      [] class = "IsEq" -> IsEq(c)
      [] class = "IsHash" -> IsHash(c)
      [] class = "IsTextOnLine" -> IsTextOnLine(c)
      [] class = "IsText" -> IsText(c)
      [] class = "IsNewline" -> IsNewline(c)

\* how many characters from position i on are of the class, up to the first that is not
Run(s, i, class) ==
    CHOOSE n \in 0..(Len(s) - i + 1) :
        /\ \A k \in 0..(n - 1) : InClass(class, s[i + k])
        /\ (i + n > Len(s) \/ ~InClass(class, s[i + n]))

\* ^ under re.MULTILINE: the start of the string or just after a newline
AtLineStart(s, i) == i = 1 \/ s[i - 1] = "\n"

\* $ under re.MULTILINE: the end of the string or just before a newline
AtLineEnd(s, i) == i = Len(s) + 1 \/ s[i] = "\n"

\* The five heading patterns have one shape,
\*     ^ LEAD HASH? \s* (TEXT+?) \s* TRAIL TAILWS? $
\* and are told apart by:
\*   lead, trail   0 for '=+', n for a run of exactly n '='
\*   hash          whether a group (#{1,6}) follows the lead
\*   nl            whether the text class is [^=] (TRUE) or [^=\n] (FALSE)
\*   tailws        whether \s* stands before the $
\*   prefix        the replacement's text before the text group (with hash,
\*                 the hash group and a blank are used instead)
\* lines 47, 48, 51, 52, 53:
HashHeadingPattern ==
    [lead |-> 0, hash |-> TRUE, nl |-> FALSE, trail |-> 0, tailws |-> FALSE,
     prefix |-> <<>>]
PlainHeadingPattern ==
    [lead |-> 0, hash |-> FALSE, nl |-> FALSE, trail |-> 0, tailws |-> FALSE,
     prefix |-> <<"#", "#", " ">>]
Level4Pattern ==
    [lead |-> 4, hash |-> FALSE, nl |-> TRUE, trail |-> 4, tailws |-> TRUE,
     prefix |-> <<"#", "#", "#", "#", " ">>]
Level3Pattern ==
    [lead |-> 3, hash |-> FALSE, nl |-> TRUE, trail |-> 3, tailws |-> TRUE,
     prefix |-> <<"#", "#", "#", " ">>]
Level2Pattern ==
    [lead |-> 2, hash |-> FALSE, nl |-> TRUE, trail |-> 2, tailws |-> TRUE,
     prefix |-> <<"#", "#", " ">>]

\* the lengths a run of '=' at position i can be matched with
MarkerLens(s, i, n) ==
    IF n = 0 THEN 1..Run(s, i, "IsEq")
    ELSE IF Run(s, i, "IsEq") >= n THEN {n} ELSE {}

TextRun(s, i, pat) == IF pat.nl THEN Run(s, i, "IsText") ELSE Run(s, i, "IsTextOnLine")

\* every way the pattern matches at position i, as the lengths
\* <<lead, hash, blanks, text, blanks, trail, tail blanks>> of its parts
Matches(s, i, pat) ==
    UNION { UNION { UNION { UNION { UNION { UNION {
        { <<a, h, p, g, q, b, r>> :
            r \in { r \in (IF pat.tailws
                           THEN 0..Run(s, i + a + h + p + g + q + b, "IsSpace")
                           ELSE {0}) :
                      AtLineEnd(s, i + a + h + p + g + q + b + r) } }
        : b \in MarkerLens(s, i + a + h + p + g + q, pat.trail) }
        : q \in 0..Run(s, i + a + h + p + g, "IsSpace") }
        : g \in 1..TextRun(s, i + a + h + p, pat) }
        : p \in 0..Run(s, i + a + h, "IsSpace") }
        : h \in (IF pat.hash
                 THEN { h \in 1..6 : h <= Run(s, i + a, "IsHash") }
                 ELSE {0}) }
        : a \in MarkerLens(s, i, pat.lead) }

\* the matches of C whose k-th part is longest, or shortest
Longest(C, k) == { t \in C : \A u \in C : u[k] <= t[k] }
Shortest(C, k) == { t \in C : \A u \in C : u[k] >= t[k] }

\* the match the backtracking search finds first: every part is greedy
\* except the text group, which is lazy
FirstMatch(s, i, pat) ==
    CHOOSE t \in
        Longest(Longest(Longest(Shortest(Longest(Longest(Longest(
            Matches(s, i, pat), 1), 2), 3), 4), 5), 6), 7) : TRUE

MatchLen(t) == t[1] + t[2] + t[3] + t[4] + t[5] + t[6] + t[7]

Replacement(s, i, pat, t) ==
    (IF pat.hash THEN SubSeq(s, i + t[1], i + t[1] + t[2] - 1) \o <<" ">>
     ELSE pat.prefix)
    \o SubSeq(s, i + t[1] + t[2] + t[3], i + t[1] + t[2] + t[3] + t[4] - 1)

\* re.sub(pattern, replacement, s, flags=re.MULTILINE) from position i on
RECURSIVE SubHeadingFrom(_, _, _)
SubHeadingFrom(s, i, pat) ==
    IF i > Len(s) THEN <<>>
    ELSE IF AtLineStart(s, i) /\ Matches(s, i, pat) # {}
         THEN LET t == FirstMatch(s, i, pat)
              IN  Replacement(s, i, pat, t) \o SubHeadingFrom(s, i + MatchLen(t), pat)
         ELSE <<s[i]>> \o SubHeadingFrom(s, i + 1, pat)

SubHeading(s, pat) == SubHeadingFrom(s, 1, pat)

\* lines 41-43, the three formula patterns.  Each match holds a '{' or a
\* backslash; they are modelled on the contents that hold neither, which they
\* leave as they are.
RemoveFormulas(s) ==
    IF ~HasChar(s, "{") /\ ~HasChar(s, "\\") THEN s
    ELSE CHOOSE unmodelled \in {} : TRUE

\* line 56: re.sub(r'\n{3,}', '\n\n', s)
RECURSIVE CollapseBlankLinesFrom(_, _)
CollapseBlankLinesFrom(s, i) ==
    IF i > Len(s) THEN <<>>
    ELSE IF Run(s, i, "IsNewline") >= 3
         THEN <<"\n", "\n">> \o CollapseBlankLinesFrom(s, i + Run(s, i, "IsNewline"))
         ELSE <<s[i]>> \o CollapseBlankLinesFrom(s, i + 1)

\* line 59: re.sub(r'\s+\(\s*\)', '', s); the length of the match at i, 0 for none
EmptyParensAt(s, i) ==
    LET w == Run(s, i, "IsSpace")
        q == Run(s, i + w + 1, "IsSpace")
    IN  IF /\ w >= 1
           /\ i + w <= Len(s) /\ s[i + w] = "("
           /\ i + w + 1 + q <= Len(s) /\ s[i + w + 1 + q] = ")"
        THEN w + 1 + q + 1
        ELSE 0

RECURSIVE RemoveEmptyParensFrom(_, _)
RemoveEmptyParensFrom(s, i) ==
    IF i > Len(s) THEN <<>>
    ELSE IF EmptyParensAt(s, i) > 0
         THEN RemoveEmptyParensFrom(s, i + EmptyParensAt(s, i))
         ELSE <<s[i]>> \o RemoveEmptyParensFrom(s, i + 1)

\* line 61: str.strip()
RECURSIVE Strip(_)
Strip(s) ==
    IF s = <<>> THEN s
    ELSE IF IsSpace(s[1]) THEN Strip(Tail(s))
    ELSE IF IsSpace(s[Len(s)]) THEN Strip(SubSeq(s, 1, Len(s) - 1))
    ELSE s

\* clean_content as a whole
clean_content(s) ==
    Strip(RemoveEmptyParensFrom(CollapseBlankLinesFrom(
        SubHeading(SubHeading(SubHeading(SubHeading(SubHeading(
            RemoveFormulas(s),
            HashHeadingPattern), PlainHeadingPattern),
            Level4Pattern), Level3Pattern), Level2Pattern), 1), 1))

-----------------------------------------------------------------------------
(* Traversal: scrape-vital-articles.py *)

BASE_URL ==
    <<"h", "t", "t", "p", "s", ":", "/", "/", "e", "n", ".", "w", "i", "k", "i",
      "p", "e", "d", "i", "a", ".", "o", "r", "g">>

\* '/wiki/Wikipedia:Vital_articles/Level/'
LevelPrefix ==
    wiki \o <<"W", "i", "k", "i", "p", "e", "d", "i", "a", ":", "V", "i", "t", "a",
              "l", "_", "a", "r", "t", "i", "c", "l", "e", "s", "/", "L", "e", "v",
              "e", "l", "/">>

TalkColon == <<"T", "a", "l", "k", ":">>

\* f'/wiki/Wikipedia:Vital_articles/Level/{level}'
LevelHref(lv) == LevelPrefix \o <<Chr(48 + lv)>>

\* str.rstrip('/')
RECURSIVE RStripSlash(_)
RStripSlash(s) ==
    IF s # <<>> /\ s[Len(s)] = "/" THEN RStripSlash(SubSeq(s, 1, Len(s) - 1)) ELSE s

\* if x not in list: list.append(x)
AppendNew(list, x) ==
    IF \E i \in 1..Len(list) : list[i] = x THEN list ELSE Append(list, x)

\* the anchors of a page's content div, in document order (none without the div)
Anchors(page) == IF page.div THEN page.links ELSE <<>>

\* get_subpage_links, lines 109-118, over the first n anchors
RECURSIVE SubpageLinksUpTo(_, _, _)
SubpageLinksUpTo(anchors, lv, n) ==
    IF n = 0 THEN <<>>
    ELSE LET h == anchors[n]
             before == SubpageLinksUpTo(anchors, lv, n - 1)
         IN  IF /\ StartsWith(h, LevelHref(lv) \o <<"/">>)
                /\ h # LevelHref(lv)
                /\ ~HasChar(h, "#")
                /\ ~HasSubstring(h, TalkColon)
             THEN AppendNew(before, BASE_URL \o h)
             ELSE before

get_subpage_links(page, lv) == SubpageLinksUpTo(Anchors(page), lv, Len(Anchors(page)))

\* lines 197-200: the anchor is a listing nested under the page at url
IsNested(url, h) ==
    /\ StartsWith(h, LevelPrefix)
    /\ StartsWith(BASE_URL \o h, RStripSlash(url) \o <<"/">>)
    /\ BASE_URL \o h # url
    /\ ~HasChar(h, "#")
    /\ ~HasSubstring(h, TalkColon)

\* scrape_page_with_subpages, lines 193-203, over the first n anchors
RECURSIVE NestedLinksUpTo(_, _, _)
NestedLinksUpTo(url, anchors, n) ==
    IF n = 0 THEN <<>>
    ELSE IF IsNested(url, anchors[n])
         THEN AppendNew(NestedLinksUpTo(url, anchors, n - 1), BASE_URL \o anchors[n])
         ELSE NestedLinksUpTo(url, anchors, n - 1)

nested_subpage_links(url, page) == NestedLinksUpTo(url, Anchors(page), Len(Anchors(page)))

\* scrape_articles_from_page, lines 144-160, on a page that was fetched
ArticlesOf(page) ==
    { extract_article_title(Anchors(page)[i]) :
        i \in { i \in 1..Len(Anchors(page)) :
                  /\ is_valid_article_link(Anchors(page)[i])
                  /\ extract_article_title(Anchors(page)[i]) # <<>> } }

\* the order of Python strings: by code point, a prefix before its extensions
RECURSIVE Less(_, _)
Less(a, b) ==
    IF a = <<>> THEN b # <<>>
    ELSE IF b = <<>> THEN FALSE
    ELSE IF a[1] = b[1] THEN Less(Tail(a), Tail(b))
    ELSE Ord(a[1]) < Ord(b[1])

\* sorted(list(articles))
RECURSIVE SortedList(_)
SortedList(S) ==
    IF S = {} THEN <<>>
    ELSE LET m == CHOOSE x \in S : \A y \in S \ {x} : Less(x, y)
         IN  <<m>> \o SortedList(S \ {m})

-----------------------------------------------------------------------------
(* Each specification below runs one part of the program; the variables of
   the other parts stay in their idle state. *)

\* the state of the variables of the link classifier while another part runs
LinkIdle ==
    /\ href = <<>>
    /\ valid = "unset"
    /\ title = <<>>
    /\ title2 = <<>>
    /\ redecoded = <<>>
    /\ lpc = "idle"

\* the state of the variables of the batch loop while another part runs
BatchIdle ==
    /\ articles = <<>>
    /\ resume = FALSE
    /\ files = {}
    /\ madeFor = [n \in FileNames |-> NoTopic]
    /\ idx = 1
    /\ stats = [success |-> 0, failed |-> 0, skipped |-> 0, errors |-> <<>>]
    /\ error_log = <<>>
    /\ bpc = "idle"
    /\ files0 = {}
    /\ outcomes = <<>>
    /\ fetched = <<>>
    /\ written = <<>>

\* the state of the variables of the content normalizer while another part runs
CleanIdle ==
    /\ raw = <<>>
    /\ content = <<>>
    /\ cpc = "idle"

\* the state of the variables of the traversal while another part runs
ScrapeIdle ==
    /\ level = 0
    /\ site = <<>>
    /\ stack = <<>>
    /\ result = <<>>
    /\ spc = "idle"
    /\ failures = 0
    /\ calls = <<>>
    /\ fetches = <<>>
    /\ returned = <<>>

-----------------------------------------------------------------------------
(* Specification of the link classifier *)

\* the pieces input hrefs are made of
HrefTokens ==
    { wiki,
      <<"T", "a", "l", "k", ":">>,
      <<"t", "a", "l", "k", ":">>,
      <<"T", "A", "L", "K", ":">>,
      <<"%", "5", "4", "a", "l", "k", ":">>,
      <<"H", "e", "l", "p", ":">>,
      <<"X">>,
      <<"#">>,
      <<"%", "2", "3">>,
      <<"%", "2", "5">>,
      <<"4", "1">>,
      <<"_">> }

HrefInputs == { Concat(ts) : ts \in SeqsUpTo(HrefTokens, MaxTokens) }

InitLink ==
    /\ href \in HrefInputs
    /\ valid = "unset"
    /\ title = <<>>
    /\ title2 = <<>>
    /\ redecoded = <<>>
    /\ lpc = "start"
    /\ BatchIdle
    /\ CleanIdle
    /\ ScrapeIdle

\* scrape_articles_from_page, line 155: the classifier is asked first
Classify ==
    /\ lpc = "start"
    /\ valid' = is_valid_article_link(href)
    /\ lpc' = "classified"
    /\ UNCHANGED <<href, title, title2, redecoded>>
    /\ UNCHANGED notLink

\* line 156: the identifier is extracted
Extract ==
    /\ lpc = "classified"
    /\ title' = extract_article_title(href)
    /\ lpc' = "extracted"
    /\ UNCHANGED <<href, valid, title2, redecoded>>
    /\ UNCHANGED notLink

\* the identifier is re-encoded as an href and extracted again
ReExtract ==
    /\ lpc = "extracted"
    /\ title2' = extract_article_title(ReEncode(title))
    /\ lpc' = "reextracted"
    /\ UNCHANGED <<href, valid, title, redecoded>>
    /\ UNCHANGED notLink

\* the identifier is percent-decoded once more
DecodeAgain ==
    /\ lpc = "reextracted"
    /\ redecoded' = Unquote(title)
    /\ lpc' = "done"
    /\ UNCHANGED <<href, valid, title, title2>>
    /\ UNCHANGED notLink

NextLink ==
    \/ Classify
    \/ Extract
    \/ ReExtract
    \/ DecodeAgain

SpecLink == InitLink /\ [][NextLink]_vars

-----------------------------------------------------------------------------
(* Specification of the batch loop: process_level from line 176 on, after the
   JSON file of the level was loaded *)

\* the artifacts a previous run can have left: each was generated for a topic
\* of that name
PreviousRuns ==
    { m \in [FileNames -> TopicPool \cup {NoTopic}] :
        \A n \in FileNames : m[n] # NoTopic => SafeFilename(m[n]) = n }

InitBatch ==
    /\ articles \in ArticleLists
    /\ resume \in BOOLEAN
    /\ madeFor \in PreviousRuns
    /\ files = { n \in FileNames : madeFor[n] # NoTopic }
    /\ files0 = files
    /\ idx = 1
    /\ stats = [success |-> 0, failed |-> 0, skipped |-> 0, errors |-> <<>>]
    /\ error_log = <<<<"header">>>>
    /\ bpc = "loop"
    /\ outcomes = <<>>
    /\ fetched = <<>>
    /\ written = <<>>
    /\ LinkIdle
    /\ CleanIdle
    /\ ScrapeIdle

\* line 207: the test that decides whether the target is skipped
ShouldSkipNever(topic) == FALSE

ShouldSkip(topic) == resume /\ SafeFilename(topic) \in files

\* lines 218-220: the failure is counted and its entry appended
RecordFailureUncounted(st, topic, reason) ==
    [st EXCEPT !.errors = Append(@, <<topic, reason>>)]

RecordFailure(st, topic, reason) ==
    [st EXCEPT !.failed = @ + 1, !.errors = Append(@, <<topic, reason>>)]

\* what the artifact found for a topic was generated for (NoTopic: no artifact)
Found(topic) ==
    IF SafeFilename(topic) \in files THEN madeFor[SafeFilename(topic)] ELSE NoTopic

\* lines 207-209: resume is on and the artifact exists
SkipExisting ==
    /\ bpc = "loop" /\ idx <= Len(articles)
    /\ ShouldSkip(articles[idx])
    /\ stats' = [stats EXCEPT !.skipped = @ + 1]
    /\ outcomes' = Append(outcomes, [kind |-> "skipped", found |-> Found(articles[idx])])
    /\ idx' = idx + 1
    /\ UNCHANGED <<articles, resume, files, madeFor, error_log, bpc, files0, fetched, written>>
    /\ UNCHANGED notBatch

\* lines 212-216: generate_markdown returns (True, text, None) and
\* save_markdown writes the artifact
GenerateSuccess ==
    /\ bpc = "loop" /\ idx <= Len(articles)
    /\ ~ShouldSkip(articles[idx])
    /\ fetched' = Append(fetched, articles[idx])
    /\ files' = files \cup {SafeFilename(articles[idx])}
    /\ madeFor' = [madeFor EXCEPT ![SafeFilename(articles[idx])] = articles[idx]]
    /\ written' = Append(written, SafeFilename(articles[idx]))
    /\ stats' = [stats EXCEPT !.success = @ + 1]
    /\ outcomes' = Append(outcomes, [kind |-> "ok", found |-> Found(articles[idx])])
    /\ idx' = idx + 1
    /\ UNCHANGED <<articles, resume, error_log, bpc, files0>>
    /\ UNCHANGED notBatch

\* lines 76-83 and 217-221: wikipedia.page raised, generate_markdown returns
\* (False, None, reason)
GenerateFailure ==
    /\ bpc = "loop" /\ idx <= Len(articles)
    /\ ~ShouldSkip(articles[idx])
    /\ \E reason \in FailureReasons :
          /\ stats' = RecordFailure(stats, articles[idx], reason)
          /\ error_log' = Append(error_log, <<"entry", articles[idx], reason>>)
          /\ outcomes' = Append(outcomes, [kind |-> reason, found |-> Found(articles[idx])])
    /\ fetched' = Append(fetched, articles[idx])
    /\ idx' = idx + 1
    /\ UNCHANGED <<articles, resume, files, madeFor, bpc, files0, written>>
    /\ UNCHANGED notBatch

\* lines 86-95: wikipedia.page returned, and the page object raises while its
\* content or url is fetched.  No handler is around these lines, nor around
\* the call of line 212: the exception leaves process_level.
GenerateRaises ==
    /\ bpc = "loop" /\ idx <= Len(articles)
    /\ ~ShouldSkip(articles[idx])
    /\ fetched' = Append(fetched, articles[idx])
    /\ outcomes' = Append(outcomes, [kind |-> "Error in body", found |-> Found(articles[idx])])
    /\ bpc' = "raised"
    /\ UNCHANGED <<articles, resume, files, madeFor, idx, stats, error_log, files0, written>>
    /\ UNCHANGED notBatch

\* lines 223-227: the loop is over, the footer is written, stats is returned
ReturnStats ==
    /\ bpc = "loop" /\ idx > Len(articles)
    /\ error_log' = Append(error_log, <<"footer", stats.success, stats.failed, stats.skipped>>)
    /\ bpc' = "done"
    /\ UNCHANGED <<articles, resume, files, madeFor, idx, stats, files0, outcomes, fetched, written>>
    /\ UNCHANGED notBatch

NextBatch ==
    \/ SkipExisting
    \/ GenerateSuccess
    \/ GenerateFailure
    \/ GenerateRaises
    \/ ReturnStats

SpecBatch == InitBatch /\ [][NextBatch]_vars

-----------------------------------------------------------------------------
(* Specification of the content normalizer: clean_content, one action for
   each assignment to content *)

Markers(n) == [i \in 1..n |-> "="]

Hashes(n) == [i \in 1..n |-> "#"]

Blanks == { <<>>, <<" ">> }

Foo == <<"F", "o", "o">>

\* a first line: heading markers around a text, well-formed or not
FirstLines ==
    { Markers(n) \o hashes \o pre \o text \o post \o Markers(m) \o tail :
        n \in 1..MaxMarkers, m \in 1..MaxMarkers,
        hashes \in { <<>>, <<"#", "#">> },
        pre \in Blanks, post \in Blanks, tail \in Blanks,
        text \in { Foo, <<>> } }

\* what follows the first line
Rests ==
    { <<>> } \cup
    { sep \o rest :
        sep \in { <<"\n">>, <<"\n", "\n">>, <<"\n", "\n", "\n", "\n">> },
        rest \in { <<"t", "e", "x", "t">>,
                   <<"=", "=", " ", "G", " ", "=", "=", "\n", "t", " ", "(", " ", ")">> } }

RawContents == { line \o rest : line \in FirstLines, rest \in Rests }

InitClean ==
    /\ raw \in RawContents
    /\ content = raw
    /\ cpc = "41"
    /\ LinkIdle
    /\ BatchIdle
    /\ ScrapeIdle

\* lines 41-43
FormulaPasses ==
    /\ cpc = "41"
    /\ content' = RemoveFormulas(content)
    /\ cpc' = "47"
    /\ UNCHANGED raw
    /\ UNCHANGED notClean

\* line 47
RepairHashHeadings ==
    /\ cpc = "47"
    /\ content' = SubHeading(content, HashHeadingPattern)
    /\ cpc' = "48"
    /\ UNCHANGED raw
    /\ UNCHANGED notClean

\* line 48
RepairPlainHeadings ==
    /\ cpc = "48"
    /\ content' = SubHeading(content, PlainHeadingPattern)
    /\ cpc' = "51"
    /\ UNCHANGED raw
    /\ UNCHANGED notClean

\* line 51
ConvertLevel4 ==
    /\ cpc = "51"
    /\ content' = SubHeading(content, Level4Pattern)
    /\ cpc' = "52"
    /\ UNCHANGED raw
    /\ UNCHANGED notClean

\* line 52
ConvertLevel3 ==
    /\ cpc = "52"
    /\ content' = SubHeading(content, Level3Pattern)
    /\ cpc' = "53"
    /\ UNCHANGED raw
    /\ UNCHANGED notClean

\* line 53
ConvertLevel2 ==
    /\ cpc = "53"
    /\ content' = SubHeading(content, Level2Pattern)
    /\ cpc' = "56"
    /\ UNCHANGED raw
    /\ UNCHANGED notClean

\* line 56
CollapseBlankLines ==
    /\ cpc = "56"
    /\ content' = CollapseBlankLinesFrom(content, 1)
    /\ cpc' = "59"
    /\ UNCHANGED raw
    /\ UNCHANGED notClean

\* line 59
RemoveEmptyParens ==
    /\ cpc = "59"
    /\ content' = RemoveEmptyParensFrom(content, 1)
    /\ cpc' = "61"
    /\ UNCHANGED raw
    /\ UNCHANGED notClean

\* line 61
StripAndReturn ==
    /\ cpc = "61"
    /\ content' = Strip(content)
    /\ cpc' = "done"
    /\ UNCHANGED raw
    /\ UNCHANGED notClean

NextClean ==
    \/ FormulaPasses
    \/ RepairHashHeadings
    \/ RepairPlainHeadings
    \/ ConvertLevel4
    \/ ConvertLevel3
    \/ ConvertLevel2
    \/ CollapseBlankLines
    \/ RemoveEmptyParens
    \/ StripAndReturn

SpecClean == InitClean /\ [][NextClean]_vars

-----------------------------------------------------------------------------
(* Specification of the traversal: scrape_vital_articles_level and the calls
   of scrape_page_with_subpages it makes *)

Page(anchors) == [div |-> TRUE, links |-> anchors, missing |-> FALSE]

\* a page whose markup has no content div
NoDivPage == [div |-> FALSE, links |-> <<>>, missing |-> FALSE]

\* no page at this URL: raise_for_status raises on every fetch
MissingPage == [div |-> FALSE, links |-> <<>>, missing |-> TRUE]

Article(name) == wiki \o name

\* the listing pages of the modelled site: the level's main page, two
\* sub-listings A and B, and two sub-sub-listings A/B and A/C
MainUrl(lv) == BASE_URL \o LevelHref(lv)
HrefA(lv) == LevelHref(lv) \o <<"/", "A">>
HrefB(lv) == LevelHref(lv) \o <<"/", "B">>
HrefAB(lv) == LevelHref(lv) \o <<"/", "A", "/", "B">>
HrefAC(lv) == LevelHref(lv) \o <<"/", "A", "/", "C">>

MainPages(lv) ==
    { Page(<<HrefA(lv), HrefB(lv)>>),
      Page(<<HrefA(lv), HrefA(lv), HrefB(lv), HrefA(lv) \o <<"#", "s">>,
             LevelHref(lv) \o <<"/">> \o TalkColon \o <<"A">>>>),
      Page(<<HrefA(lv), HrefAB(lv), Article(<<"X">>)>>),
      Page(<<Article(<<"X">>), Article(<<"Y">>)>>),
      NoDivPage }

PagesA(lv) ==
    { Page(<<Article(<<"X">>), Article(<<"Y">>)>>),
      Page(<<HrefAB(lv), Article(<<"X">>)>>),
      Page(<<HrefAB(lv), HrefAB(lv), HrefAC(lv), Article(<<"Y">>)>>),
      Page(<<Article(<<"X">>), Article(TalkColon \o <<"X">>), Article(<<>>),
             Article(<<"X", "#", "s">>), Article(<<"%", "5", "8">>)>>) }

PagesB(lv) ==
    { Page(<<Article(<<"Y">>), Article(<<"Z">>)>>),
      Page(<<Article(<<"X">>), HrefA(lv)>>),
      NoDivPage,
      MissingPage }

PagesAB(lv) ==
    { Page(<<Article(<<"Z">>)>>),
      Page(<<Article(<<"X">>), Article(<<"Z">>), HrefA(lv)>>) }

PagesAC(lv) ==
    { Page(<<Article(<<"X">>)>>),
      Page(<<Article(<<"Z">>), Article(<<"Y">>)>>) }

Sites(lv) ==
    { (MainUrl(lv) :> m) @@ (BASE_URL \o HrefA(lv) :> a) @@ (BASE_URL \o HrefB(lv) :> b)
        @@ (BASE_URL \o HrefAB(lv) :> ab) @@ (BASE_URL \o HrefAC(lv) :> ac) :
        m \in MainPages(lv), a \in PagesA(lv), b \in PagesB(lv), ab \in PagesAB(lv),
        ac \in PagesAC(lv) }

InitScrape ==
    /\ level \in {3, 5}
    /\ site \in Sites(level)
    /\ stack = <<>>
    /\ result = <<>>
    /\ spc = "start"
    /\ failures = 0
    /\ calls = <<>>
    /\ fetches = <<>>
    /\ returned = <<>>
    /\ LinkIdle
    /\ BatchIdle
    /\ CleanIdle

\* requests.get and raise_for_status: a URL with no page fails every time, a
\* page that exists can be fetched
Exists(url) == url \in DOMAIN site /\ ~site[url].missing

\* a fetch of an existing page fails in transit
MayFail == failures < MaxFailures

Top == stack[Len(stack)]

\* the URL the loop of the top call is at
Target == Top.nested[Top.k]

Frame(url, nested) ==
    [url |-> url, nested |-> nested, k |-> 1, all_articles |-> {}, rets |-> <<>>]

\* the record of a call that returned
Returned(url, kind, nested, rets, res) ==
    [url |-> url, kind |-> kind, nested |-> nested, rets |-> rets, result |-> res]

\* lines 209-210 and 261-262: the set a call returned is merged into the
\* caller's set and the caller's loop moves on
Deliver(st, ret) ==
    [st EXCEPT ![Len(st)] =
        [@ EXCEPT !.all_articles = @ \cup ret.result,
                  !.rets = Append(@, ret),
                  !.k = @ + 1]]

\* lines 236-241: the level's main page cannot be fetched
LevelFetchFails ==
    /\ spc = "start"
    /\ MayFail
    /\ failures' = failures + 1
    /\ result' = <<>>
    /\ spc' = "done"
    /\ fetches' = fetches \o <<<<MainUrl(level), "failed">>>>
    /\ UNCHANGED <<level, site, stack, calls, returned>>
    /\ UNCHANGED notScrape

UsesSubpages ==
    level \in {4, 5} /\ get_subpage_links(site[MainUrl(level)], level) # <<>>

\* lines 246-253: the main page of level 4 or 5 lists sub-listings
LevelHasSubpages ==
    /\ spc = "start"
    /\ UsesSubpages
    /\ stack' = <<Frame(MainUrl(level), get_subpage_links(site[MainUrl(level)], level))>>
    /\ spc' = "run"
    /\ fetches' = fetches \o <<<<MainUrl(level), "ok">>>>
    /\ UNCHANGED <<level, site, result, failures, calls, returned>>
    /\ UNCHANGED notScrape

\* lines 270-278: the articles are scraped from the main page, which
\* scrape_articles_from_page fetches again
LevelDirect ==
    /\ spc = "start"
    /\ ~UsesSubpages
    /\ result' = SortedList(ArticlesOf(site[MainUrl(level)]))
    /\ spc' = "done"
    /\ fetches' = fetches \o <<<<MainUrl(level), "ok">>, <<MainUrl(level), "ok">>>>
    /\ UNCHANGED <<level, site, stack, failures, calls, returned>>
    /\ UNCHANGED notScrape

\* lines 270-278 and 137-142: that second fetch fails
LevelDirectRefetchFails ==
    /\ spc = "start"
    /\ ~UsesSubpages
    /\ MayFail
    /\ failures' = failures + 1
    /\ result' = <<>>
    /\ spc' = "done"
    /\ fetches' = fetches \o <<<<MainUrl(level), "ok">>, <<MainUrl(level), "failed">>>>
    /\ UNCHANGED <<level, site, stack, calls, returned>>
    /\ UNCHANGED notScrape

AtCall == spc = "run" /\ Top.k <= Len(Top.nested)

\* lines 179-184: scrape_page_with_subpages cannot fetch its page and returns set()
PageFetchFails ==
    /\ AtCall
    /\ \/ ~Exists(Target) /\ failures' = failures
       \/ Exists(Target) /\ MayFail /\ failures' = failures + 1
    /\ calls' = Append(calls, Target)
    /\ LET ret == Returned(Target, "failed", <<>>, <<>>, {})
       IN  /\ stack' = Deliver(stack, ret)
           /\ returned' = Append(returned, ret)
    /\ fetches' = fetches \o <<<<Target, "failed">>>>
    /\ UNCHANGED <<level, site, result, spc>>
    /\ UNCHANGED notScrape

\* lines 186-209: the page has nested listings; the loop over them starts
PageHasSubpages ==
    /\ AtCall
    /\ Exists(Target)
    /\ nested_subpage_links(Target, site[Target]) # <<>>
    /\ calls' = Append(calls, Target)
    /\ stack' = Append(stack, Frame(Target, nested_subpage_links(Target, site[Target])))
    /\ fetches' = fetches \o <<<<Target, "ok">>>>
    /\ UNCHANGED <<level, site, result, spc, failures, returned>>
    /\ UNCHANGED notScrape

\* lines 212-214: no nested listing; scrape_articles_from_page fetches the
\* page again and returns its articles
PageIsLeaf ==
    /\ AtCall
    /\ Exists(Target)
    /\ nested_subpage_links(Target, site[Target]) = <<>>
    /\ calls' = Append(calls, Target)
    /\ LET ret == Returned(Target, "leaf", <<>>, <<>>, ArticlesOf(site[Target]))
       IN  /\ stack' = Deliver(stack, ret)
           /\ returned' = Append(returned, ret)
    /\ fetches' = fetches \o <<<<Target, "ok">>, <<Target, "ok">>>>
    /\ UNCHANGED <<level, site, result, spc, failures>>
    /\ UNCHANGED notScrape

\* lines 212-214 and 137-142: that second fetch fails
PageIsLeafRefetchFails ==
    /\ AtCall
    /\ Exists(Target)
    /\ nested_subpage_links(Target, site[Target]) = <<>>
    /\ MayFail
    /\ failures' = failures + 1
    /\ calls' = Append(calls, Target)
    /\ LET ret == Returned(Target, "leaf, second fetch failed", <<>>, <<>>, {})
       IN  /\ stack' = Deliver(stack, ret)
           /\ returned' = Append(returned, ret)
    /\ fetches' = fetches \o <<<<Target, "ok">>, <<Target, "failed">>>>
    /\ UNCHANGED <<level, site, result, spc>>
    /\ UNCHANGED notScrape

\* line 211 with the page's own articles added to the union
ParentResultWithOwnLinks(frame) == frame.all_articles \cup ArticlesOf(site[frame.url])

\* line 211: return all_articles
ParentResult(frame) == frame.all_articles

\* lines 208-211: the loop over the nested listings is over
ReturnFromPage ==
    /\ spc = "run"
    /\ Len(stack) >= 2
    /\ Top.k > Len(Top.nested)
    /\ LET ret == Returned(Top.url, "parent", Top.nested, Top.rets, ParentResult(Top))
       IN  /\ stack' = Deliver(SubSeq(stack, 1, Len(stack) - 1), ret)
           /\ returned' = Append(returned, ret)
    /\ UNCHANGED <<level, site, result, spc, failures, calls, fetches>>
    /\ UNCHANGED notScrape

\* lines 266-268: the loop over the sub-listings is over
FinishLevel ==
    /\ spc = "run"
    /\ Len(stack) = 1
    /\ Top.k > Len(Top.nested)
    /\ result' = SortedList(Top.all_articles)
    /\ spc' = "done"
    /\ UNCHANGED <<level, site, stack, failures, calls, fetches, returned>>
    /\ UNCHANGED notScrape

NextScrape ==
    \/ LevelFetchFails
    \/ LevelHasSubpages
    \/ LevelDirect
    \/ LevelDirectRefetchFails
    \/ PageFetchFails
    \/ PageHasSubpages
    \/ PageIsLeaf
    \/ PageIsLeafRefetchFails
    \/ ReturnFromPage
    \/ FinishLevel

SpecScrape == InitScrape /\ [][NextScrape]_vars

-----------------------------------------------------------------------------
(* Descent: scrape-vital-articles.py, scrape_page_with_subpages on a site
   whose listing URLs can end in '/'. The actions are those of the traversal;
   a call that would nest deeper than the interpreter's recursion limit raises
   RecursionError, which is not a requests.RequestException and so leaves
   scrape_page_with_subpages and scrape_vital_articles_level. *)

\* stands for sys.getrecursionlimit(), in frames of the traversal
RecursionLimit == 5

\* listings whose names end in '/': .../A/ and .../A//
HrefAS(lv) == HrefA(lv) \o <<"/">>
HrefASS(lv) == HrefA(lv) \o <<"/", "/">>

SlashMainPages(lv) ==
    { Page(<<HrefAS(lv)>>),
      Page(<<HrefAS(lv), HrefB(lv)>>),
      Page(<<HrefA(lv), HrefASS(lv)>>),
      Page(<<Article(<<"X">>)>>) }

PagesAS(lv) ==
    { Page(<<Article(<<"X">>)>>),
      Page(<<HrefASS(lv), Article(<<"X">>)>>),
      Page(<<HrefASS(lv), HrefAB(lv)>>),
      Page(<<HrefA(lv), Article(<<"Y">>)>>) }

PagesASS(lv) ==
    { Page(<<Article(<<"Y">>)>>),
      Page(<<HrefAS(lv), Article(<<"Y">>)>>),
      Page(<<HrefA(lv), Article(<<"Z">>)>>) }

SlashSites(lv) ==
    { (MainUrl(lv) :> m) @@ (BASE_URL \o HrefA(lv) :> a) @@ (BASE_URL \o HrefB(lv) :> b)
        @@ (BASE_URL \o HrefAS(lv) :> as) @@ (BASE_URL \o HrefASS(lv) :> ass)
        @@ (BASE_URL \o HrefAB(lv) :> Page(<<Article(<<"Z">>)>>)) :
        m \in SlashMainPages(lv),
        a \in { Page(<<Article(<<"X">>)>>), Page(<<HrefAS(lv)>>) },
        b \in { Page(<<Article(<<"Y">>)>>), MissingPage },
        as \in PagesAS(lv), ass \in PagesASS(lv) }

InitDescent ==
    /\ level \in {3, 5}
    /\ site \in SlashSites(level)
    /\ stack = <<>>
    /\ result = <<>>
    /\ spc = "start"
    /\ failures = 0
    /\ calls = <<>>
    /\ fetches = <<>>
    /\ returned = <<>>
    /\ LinkIdle
    /\ BatchIdle
    /\ CleanIdle

\* the call of line 208 fits under the recursion limit
WithinLimit == Len(stack) < RecursionLimit

\* lines 208 and 179-214: a call of scrape_page_with_subpages that the
\* interpreter allows
CallWithinLimit ==
    /\ WithinLimit
    /\ \/ PageFetchFails
       \/ PageHasSubpages
       \/ PageIsLeaf
       \/ PageIsLeafRefetchFails

\* line 208: the call nests deeper than the recursion limit; RecursionError
\* is raised and no handler of the traversal catches it
RecursionLimitExceeded ==
    /\ AtCall
    /\ ~WithinLimit
    /\ spc' = "RecursionError"
    /\ calls' = Append(calls, Target)
    /\ UNCHANGED <<level, site, stack, result, failures, fetches, returned>>
    /\ UNCHANGED notScrape

NextDescent ==
    \/ LevelFetchFails
    \/ LevelHasSubpages
    \/ LevelDirect
    \/ LevelDirectRefetchFails
    \/ CallWithinLimit
    \/ RecursionLimitExceeded
    \/ ReturnFromPage
    \/ FinishLevel

SpecDescent == InitDescent /\ [][NextDescent]_vars

-----------------------------------------------------------------------------
(* Claims about the link classifier, checked under SpecLink *)

Lower(c) == IF IsAscii(c) /\ Ord(c) \in 65..90 THEN Chr(Ord(c) + 32) ELSE c

LowerStr(s) == [i \in 1..Len(s) |-> Lower(s[i])]

\* the namespace part of an excluded prefix, without the leading '/wiki/'
Namespace(k) == SubSeq(excluded_prefixes[k], 7, Len(excluded_prefixes[k]))

\* h is rooted at '/wiki/' and continues with an excluded namespace prefix in
\* any casing
UnderExcludedPrefixAnyCase(h) ==
    /\ StartsWith(h, wiki)
    /\ \E k \in 1..Len(excluded_prefixes) :
          /\ Len(h) >= Len(excluded_prefixes[k])
          /\ LowerStr(SubSeq(h, 7, Len(excluded_prefixes[k]))) = LowerStr(Namespace(k))

\* C5: is_valid_article_link returns true for every href rooted at '/wiki/'
\* with no excluded prefix and false for every href under an excluded prefix,
\* whatever the casing of the prefix segment ('/wiki/talk:X' is rejected).
C5_ValidIffNotExcludedAnyCase ==
    lpc # "start" =>
        valid = (StartsWith(href, wiki) /\ ~UnderExcludedPrefixAnyCase(href))

\* C6: the title extracted from an href the classifier accepted never begins
\* with a namespace prefix of the exclusion set and never contains a raw '#'.
C6_TitleHasNoNamespaceNoAnchor ==
    (lpc \in {"extracted", "reextracted", "done"} /\ valid = TRUE) =>
        /\ ~\E k \in 1..Len(excluded_prefixes) : StartsWith(title, Namespace(k))
        /\ ~HasChar(title, "#")

\* the string holds a '%' followed by two hex digits
HasEscape(s) ==
    \E i \in 1..(Len(s) - 2) : s[i] = "%" /\ IsHex(s[i + 1]) /\ IsHex(s[i + 2])

\* C7 as stated: extract_article_title applied to its own output re-encoded as
\* an href yields the same identifier, and percent-decoding an identifier it
\* produced is a no-op, also when the identifier still holds a '%' followed by
\* two hex digits.
C7_IdempotentAlsoOnRedecoding ==
    lpc = "done" => (title2 = title /\ redecoded = title)

\* C7 as amended: extract_article_title applied to its own output re-encoded as
\* an href yields the same identifier; percent-decoding an identifier it
\* produced is a no-op when the identifier holds no '%' followed by two hex
\* digits.
C7_IdempotentOnReencoding ==
    lpc = "done" =>
        /\ title2 = title
        /\ (~HasEscape(title) => redecoded = title)

\* the href '/wiki/%2541' gave the identifier '%41', which re-encoding and
\* extracting again gave back
C7_Witness ==
    /\ lpc = "done"
    /\ href = wiki \o <<"%", "2", "5", "4", "1">>
    /\ title = <<"%", "4", "1">>
    /\ title2 = title

-----------------------------------------------------------------------------
(* Claims about the batch loop, checked under SpecBatch *)

\* how many of the targets reached so far ended in one of the given ways
NumKind(kinds) == Cardinality({ i \in 1..Len(outcomes) : outcomes[i].kind \in kinds })

\* the (target, reason) pairs of the first n targets whose retrieval failed
\* with a reason generate_markdown returned, in processing order
RECURSIVE FailedEntries(_)
FailedEntries(n) ==
    IF n = 0 THEN <<>>
    ELSE IF outcomes[n].kind \in FailureReasons
         THEN Append(FailedEntries(n - 1), <<articles[n], outcomes[n].kind>>)
         ELSE FailedEntries(n - 1)

\* the lines of the error log between its header and its footer
LogEntries == SelectSeq(error_log, LAMBDA line : line[1] = "entry")

Distinct(s) == \A i, j \in 1..Len(s) : i # j => s[i] # s[j]

\* C1: every retrieval failure, whichever line of generate_markdown raises it,
\* increments failed and appends one entry to the report, and the loop goes on:
\* no exception leaves process_level and every target is processed.
C1_EveryFailureIsRecorded ==
    /\ bpc # "raised"
    /\ stats.failed = NumKind(FailureReasons \cup {"Error in body"})
    /\ Len(stats.errors) = stats.failed
    /\ (bpc = "done" => Len(outcomes) = Len(articles))

\* C2: with resume off, the returned report has skipped = 0, success = the
\* number of targets retrieved, failed = the number whose retrieval failed, and
\* the error list and the error log hold one entry per failed target, in
\* processing order.
C2_ReportCountsOutcomes ==
    (bpc = "done" /\ ~resume) =>
        /\ Len(outcomes) = Len(articles)
        /\ stats.skipped = 0
        /\ stats.success = NumKind({"ok"})
        /\ stats.failed = NumKind(FailureReasons)
        /\ stats.errors = FailedEntries(Len(articles))
        /\ LogEntries = [i \in 1..Len(stats.errors) |-> <<"entry">> \o stats.errors[i]]

\* three targets, the second not found: success=2, failed=1, skipped=0 and one
\* error entry
C2_Witness ==
    /\ bpc = "done" /\ ~resume
    /\ Len(articles) = 3
    /\ stats.success = 2 /\ stats.failed = 1 /\ stats.skipped = 0
    /\ stats.errors = <<<<articles[2], "Page not found">>>>
    /\ Len(LogEntries) = 1

\* the artifact of the target the loop is at exists and resume is on
AtExistingArtifact ==
    /\ bpc = "loop" /\ idx <= Len(articles)
    /\ resume
    /\ SafeFilename(articles[idx]) \in files

\* C3: with resume on, a target whose artifact exists is counted in skipped
\* and nothing is retrieved or written for it; a run in which every target's
\* artifact existed at the start returns skipped = total, success = 0,
\* failed = 0, with no retrieval and no artifact rewritten.
C3_ResumeSkipsExisting ==
    /\ [][AtExistingArtifact =>
            /\ stats' = [stats EXCEPT !.skipped = @ + 1]
            /\ idx' = idx + 1
            /\ fetched' = fetched /\ written' = written
            /\ files' = files /\ madeFor' = madeFor]_vars
    /\ []((bpc = "done" /\ resume
             /\ \A i \in 1..Len(articles) : SafeFilename(articles[i]) \in files0) =>
            /\ stats.skipped = Len(articles)
            /\ stats.success = 0 /\ stats.failed = 0
            /\ fetched = <<>> /\ written = <<>>
            /\ files = files0)

\* a re-run over three targets whose artifacts all exist
C3_Witness ==
    /\ bpc = "done" /\ resume
    /\ Len(articles) = 3
    /\ \A i \in 1..Len(articles) : SafeFilename(articles[i]) \in files0
    /\ stats.skipped = 3
    /\ fetched = <<>>

\* C4: after a run that starts with no artifacts, over distinct targets, the
\* number of artifact files equals success (also for 'A/B' and 'A_B'); and a
\* target is skipped only when the artifact found was generated for that same
\* target.
C4_OneArtifactPerTarget ==
    /\ (bpc = "done" /\ files0 = {} /\ Distinct(articles)) =>
           Cardinality(files) = stats.success
    /\ \A i \in 1..Len(outcomes) :
           outcomes[i].kind = "skipped" => outcomes[i].found = articles[i]

-----------------------------------------------------------------------------
(* Claims about the content normalizer, checked under SpecClean *)

\* the content begins with a well-formed heading line: n markers, a blank, the
\* text, a blank, n markers, and then the end of the line
BeginsWithHeading(s, n) ==
    LET line == Markers(n) \o <<" ">> \o Foo \o <<" ">> \o Markers(n)
    IN  StartsWith(s, line) /\ AtLineEnd(s, Len(line) + 1)

\* C9: clean_content turns a well-formed heading line with n markers on each
\* side into a level-n heading, for n = 4, 3 and 2; the body "=== Foo ===",
\* a blank line, "text" becomes "### Foo", a blank line, "text".
C9_HeadingLevelIsMarkerCount ==
    cpc = "done" =>
        /\ \A n \in {2, 3, 4} :
              BeginsWithHeading(raw, n) =>
                  BeforeFirst(content, "\n") = Hashes(n) \o <<" ">> \o Foo
        /\ (raw = Markers(3) \o <<" ">> \o Foo \o <<" ">> \o Markers(3)
                    \o <<"\n", "\n", "t", "e", "x", "t">>
              => content = Hashes(3) \o <<" ">> \o Foo \o <<"\n", "\n", "t", "e", "x", "t">>)

-----------------------------------------------------------------------------
(* Claims about the traversal, checked under SpecScrape *)

\* the identifiers of the hrefs of a page that the classifier accepts
AcceptedIdentifiers(page) ==
    { extract_article_title(h) :
        h \in { page.links[i] : i \in { i \in 1..Len(page.links) :
                                          is_valid_article_link(page.links[i]) } } }

\* the call returned[j] fetched its page, and the page has nested listings
IsParentCall(r) ==
    r.kind # "failed" /\ \E i \in 1..Len(site[r.url].links) : IsNested(r.url, site[r.url].links[i])

IsLeafCall(r) ==
    r.kind # "failed" /\ ~\E i \in 1..Len(site[r.url].links) : IsNested(r.url, site[r.url].links[i])

\* the page at url exists and has no nested listing
IsLeafPage(url) ==
    /\ Exists(url)
    /\ ~\E i \in 1..Len(site[url].links) : IsNested(url, site[url].links[i])

\* the call's result is the union of what its recursive calls returned, one
\* call for each nested listing
IsUnionOfNested(r) ==
    /\ Len(r.rets) = Len(r.nested)
    /\ \A i \in 1..Len(r.rets) : r.rets[i].url = r.nested[i]
    /\ r.result = UNION { r.rets[i].result : i \in 1..Len(r.rets) }

NonEmptyIdentifiers(page) == AcceptedIdentifiers(page) \ {<<>>}

C10_EachListingTraversedOnce ==
    \A i, j \in 1..Len(calls) : i # j => calls[i] # calls[j]

-----------------------------------------------------------------------------
(* Claims about termination of the descent, checked under SpecDescent *)

\* the URL of the call that made the call of frame i
Caller(i) == stack[i - 1].url

\* the variant the termination argument rests on: every active call of
\* scrape_page_with_subpages is on a URL that is longer than its caller's URL
\* and begins with it
EachCallExtendsItsCaller ==
    \A i \in 2..Len(stack) :
        /\ Len(stack[i].url) > Len(Caller(i))
        /\ StartsWith(stack[i].url, Caller(i))

\* no URL is being traversed inside its own traversal
NoUrlWithinItself ==
    \A i, j \in 2..Len(stack) : i # j => stack[i].url # stack[j].url

\* the descent never runs into the interpreter's recursion limit
NeverExceedsRecursionLimit == spc # "RecursionError"

\* C11: on every finite site, cyclic or not, scrape_page_with_subpages
\* terminates by itself: every recursive call is on a URL that strictly
\* extends the URL of the call that makes it, so no URL is entered again
\* inside its own traversal and the recursion ends without a depth limit.
C11_DescentTerminatesByExtension ==
    /\ EachCallExtendsItsCaller
    /\ NoUrlWithinItself
    /\ NeverExceedsRecursionLimit

=============================================================================
